---- MODULE Spec2Model ----
(***************************************************************************)
(* Model of src/xmp_timedatestamp.py: prepend_date_to_filename and the     *)
(* module-level script that calls it.                                       *)
(*                                                                          *)
(* A string is a sequence of one-character strings, a path is the sequence  *)
(* of its components (pathlib's parts below the root).  The filesystem is   *)
(* a function from the existing paths to what is stored there, with the     *)
(* semantics of POSIX rename(2) (the script's literal paths are macOS       *)
(* paths).  Parent directories of the modelled files exist and are not      *)
(* entries of the function; a "dir" entry is an (empty) directory that      *)
(* occupies a file's place.                                                 *)
(***************************************************************************)
EXTENDS Integers, Sequences, FiniteSets, TLC

VARIABLES fs, last, stdout

vars == <<fs, last, stdout>>

(***************************************************************************)
(* Bounds                                                                   *)
(***************************************************************************)
\* longest DateCreated text drawn for the metadata documents
MaxLen == 2

(***************************************************************************)
(* Strings and paths (pathlib)                                              *)
(***************************************************************************)
\* the ranges of the character class on line 46
Upper == {"A", "B", "C", "D", "E", "F", "G", "H", "I", "J", "K", "L", "M",
          "N", "O", "P", "Q", "R", "S", "T", "U", "V", "W", "X", "Y", "Z"}
Lower == {"a", "b", "c", "d", "e", "f", "g", "h", "i", "j", "k", "l", "m",
          "n", "o", "p", "q", "r", "s", "t", "u", "v", "w", "x", "y", "z"}
Digit == {"0", "1", "2", "3", "4", "5", "6", "7", "8", "9"}

\* variant: the class r'[^A-Za-z0-9_/-]', which lets the path separator through
Disallowed_SlashAllowed(c) ==
    c \notin (Upper \cup Lower \cup Digit \cup {"_", "-", "/"})

\* line 46, the character class of r'[^A-Za-z0-9_-]': TRUE iff c is matched
\* (c lies outside A-Z, a-z, 0-9, underscore, hyphen)
Disallowed(c) == c \notin (Upper \cup Lower \cup Digit \cup {"_", "-"})

\* line 46, re.sub(r'[^A-Za-z0-9_-]', '_', text): scan left to right, every
\* (one-character) match is replaced by "_", everything else is copied
RECURSIVE ReSub(_)
ReSub(text) ==
    IF text = <<>> THEN <<>>
    ELSE (IF Disallowed(Head(text)) THEN <<"_">> ELSE <<Head(text)>>)
         \o ReSub(Tail(text))

\* variant of line 46: the pattern r'[^A-Za-z0-9_-]+', which replaces a whole
\* run of disallowed characters by one underscore
RECURSIVE SkipRun(_)
SkipRun(text) ==
    IF text # <<>> /\ Disallowed(Head(text)) THEN SkipRun(Tail(text)) ELSE text

RECURSIVE ReSubRuns(_)
ReSubRuns(text) ==
    IF text = <<>> THEN <<>>
    ELSE IF Disallowed(Head(text)) THEN <<"_">> \o ReSubRuns(SkipRun(text))
    ELSE <<Head(text)>> \o ReSubRuns(Tail(text))

\* PurePath.name: the last component, "" for a path without components
Name(p) == IF p = <<>> THEN <<>> ELSE p[Len(p)]

\* PurePath.parent: the path without its last component
Parent(p) == IF p = <<>> THEN <<>> ELSE SubSeq(p, 1, Len(p) - 1)

\* str.rfind('.') on a name, 1-based; 0 when there is no dot
RFindDot(name) ==
    LET dots == {i \in 1..Len(name) : name[i] = "."}
    IN IF dots = {} THEN 0 ELSE CHOOSE i \in dots : \A j \in dots : j <= i

\* PurePath.stem (line 25): the name without its last suffix; a leading dot
\* or a trailing dot starts no suffix
Stem(name) ==
    LET i == RFindDot(name)
    IN IF 1 < i /\ i < Len(name) THEN SubSeq(name, 1, i - 1) ELSE name

\* the components of a string operand of "/": split at "/", empty and "."
\* components dropped
RECURSIVE SplitParts(_, _)
SplitParts(s, cur) ==
    LET done == IF cur = <<>> \/ cur = <<".">> THEN <<>> ELSE <<cur>>
    IN IF s = <<>> THEN done
       ELSE IF Head(s) = "/" THEN done \o SplitParts(Tail(s), <<>>)
       ELSE SplitParts(Tail(s), Append(cur, Head(s)))

\* PurePath.__truediv__ with a string operand (lines 26 and 50): an absolute
\* operand replaces the left side, a relative one is appended part by part
JoinPath(base, s) ==
    IF s # <<>> /\ Head(s) = "/" THEN SplitParts(s, <<>>)
    ELSE base \o SplitParts(s, <<>>)

(***************************************************************************)
(* Filesystem                                                               *)
(***************************************************************************)
\* an element photoshop:DateCreated: its .text is None (hasText FALSE) or a string
NoText == [hasText |-> FALSE, text |-> <<>>]
Elem(t) == [hasText |-> TRUE, text |-> t]

\* what a path holds: a directory, or a file whose bytes are not UTF-8
\* ("bin"), UTF-8 text that is not well-formed XML ("text"), or a well-formed
\* XML document ("xml") with elems, the photoshop:DateCreated elements
\* below its root in document order
Dir == [kind |-> "dir", elems |-> <<>>]
Bin == [kind |-> "bin", elems |-> <<>>]
Malformed == [kind |-> "text", elems |-> <<>>]
Xml(elems) == [kind |-> "xml", elems |-> elems]

\* Path.exists() (line 31)
Exists(f, p) == p \in DOMAIN f

\* exceptions: type, message text, the path the message names, and for the
\* wrapped failure the message of its cause
NoMsg == [text |-> "", path |-> <<>>]
Exc(type, text, path) == [type |-> type, text |-> text, path |-> path, cause |-> NoMsg]
NoExc == Exc("", "", <<>>)

\* one filesystem operation of the operation log
Op(op, path, to) == [op |-> op, path |-> path, to |-> to]

\* lines 34-35, open('r', encoding='utf-8') and read(): a directory cannot
\* be opened, bytes that are not UTF-8 cannot be decoded
ReadText(f, p) ==
    IF f[p].kind = "dir"
    THEN [ok |-> FALSE, exc |-> Exc("IsADirectoryError", "Is a directory", p)]
    ELSE IF f[p].kind = "bin"
    THEN [ok |-> FALSE, exc |-> Exc("UnicodeDecodeError", "invalid start byte", <<>>)]
    ELSE [ok |-> TRUE, exc |-> NoExc]

\* line 38, ET.fromstring(content): well-formed content parses
FromString(content) ==
    IF content.kind = "xml"
    THEN [ok |-> TRUE, exc |-> NoExc]
    ELSE [ok |-> FALSE, exc |-> Exc("ParseError", "syntax error", <<>>)]

\* line 40, root.find('.//photoshop:DateCreated', namespace): the first
\* matching element in document order, or None
Find(content) ==
    IF content.elems = <<>> THEN [found |-> FALSE, el |-> NoText]
    ELSE [found |-> TRUE, el |-> Head(content.elems)]

\* variant: only "date_created is None" is tested
DateMissing_NoneOnly(date_created) == ~date_created.found

\* line 42: date_created is None or not date_created.text
DateMissing(date_created) ==
    ~date_created.found \/ ~date_created.el.hasText \/ date_created.el.text = <<>>

\* variant: copy to the destination instead of moving (the source stays)
Rename_Copy(f, src, dst) ==
    IF src \notin DOMAIN f
    THEN [ok |-> FALSE, fs |-> f,
          exc |-> Exc("FileNotFoundError", "No such file or directory", src)]
    ELSE IF dst \in DOMAIN f /\ f[src].kind # "dir" /\ f[dst].kind = "dir"
    THEN [ok |-> FALSE, fs |-> f,
          exc |-> Exc("IsADirectoryError", "Is a directory", src)]
    ELSE [ok |-> TRUE, exc |-> NoExc,
          fs |-> [p \in DOMAIN f \cup {dst} |-> IF p = dst THEN f[src] ELSE f[p]]]

\* variant: the source is unlinked before the destination is examined, so a
\* rename refused because of the destination has already removed the source
Rename_NonAtomic(f, src, dst) ==
    IF src \notin DOMAIN f
    THEN [ok |-> FALSE, fs |-> f,
          exc |-> Exc("FileNotFoundError", "No such file or directory", src)]
    ELSE IF dst \in DOMAIN f /\ f[src].kind # "dir" /\ f[dst].kind = "dir"
    THEN [ok |-> FALSE, fs |-> [p \in DOMAIN f \ {src} |-> f[p]],
          exc |-> Exc("IsADirectoryError", "Is a directory", src)]
    ELSE [ok |-> TRUE, exc |-> NoExc,
          fs |-> [p \in (DOMAIN f \ {src}) \cup {dst} |->
                    IF p = dst THEN f[src] ELSE f[p]]]

\* line 56, Path.rename -> rename(2): fails without effect when the source
\* is missing or when a file would replace a directory (or a directory a
\* file); otherwise the source entry moves to the destination, silently
\* replacing what is there
Rename(f, src, dst) ==
    IF src \notin DOMAIN f
    THEN [ok |-> FALSE, fs |-> f,
          exc |-> Exc("FileNotFoundError", "No such file or directory", src)]
    ELSE IF src = dst
    THEN [ok |-> TRUE, fs |-> f, exc |-> NoExc]
    ELSE IF dst \in DOMAIN f /\ f[src].kind # "dir" /\ f[dst].kind = "dir"
    THEN [ok |-> FALSE, fs |-> f,
          exc |-> Exc("IsADirectoryError", "Is a directory", src)]
    ELSE IF dst \in DOMAIN f /\ f[src].kind = "dir" /\ f[dst].kind # "dir"
    THEN [ok |-> FALSE, fs |-> f,
          exc |-> Exc("NotADirectoryError", "Not a directory", src)]
    ELSE [ok |-> TRUE, exc |-> NoExc,
          fs |-> [p \in (DOMAIN f \ {src}) \cup {dst} |->
                    IF p = dst THEN f[src] ELSE f[p]]]

(***************************************************************************)
(* prepend_date_to_filename                                                 *)
(***************************************************************************)
\* metadata_dir=None (or any falsy value), and a supplied directory (line 21)
NoDir == [given |-> FALSE, path |-> <<>>]
InDir(d) == [given |-> TRUE, path |-> d]

\* how an invocation ends: the value returned or the exception raised, the
\* filesystem it leaves, the lines it printed, the filesystem operations it did
Returned(ret, f, out, log) ==
    [raised |-> FALSE, exc |-> NoExc, ret |-> ret, fs |-> f, out |-> out, log |-> log]
Raised(exc, f, log) ==
    [raised |-> TRUE, exc |-> exc, ret |-> <<>>, fs |-> f, out |-> <<>>, log |-> log]

\* variant: metadata_dir is ignored, the target itself is read
XmpFilePath_IgnoreDir(file_path, metadata_dir) == file_path

\* lines 24-28: metadata_dir / f"{file_path.stem}.xmp", or the file itself
XmpFilePath(file_path, metadata_dir) ==
    IF metadata_dir.given
    THEN JoinPath(metadata_dir.path,
                  Stem(Name(file_path)) \o <<".", "x", "m", "p">>)
    ELSE file_path

\* variant of line 46 with the pattern r'[^A-Za-z0-9_-]+'
sanitized_date_Runs(text) == ReSubRuns(text)

\* line 46
sanitized_date(text) == ReSub(text)

\* line 49: f"{sanitized_date}_{file_path.name}"
new_filename(file_path, text) == sanitized_date(text) \o <<"_">> \o Name(file_path)

\* line 50: file_path.parent / new_filename
new_file_path(file_path, text) ==
    JoinPath(Parent(file_path), new_filename(file_path, text))

\* line 53, the line print writes
WhatIfLine(old, new) == [text |-> "[WHATIF] Would rename", old |-> old, new |-> new]

\* line 72, the line print writes
RenamedLine(new) == [text |-> "File renamed to", old |-> <<>>, new |-> new]

\* variant: the rename is performed in dry-run mode too
RenameOrReport_AlwaysRename(f, file_path, new, whatif, log) ==
    LET r == Rename(f, file_path, new)
        log2 == Append(log, Op("rename", file_path, new))
        out == IF whatif THEN <<WhatIfLine(file_path, new)>> ELSE <<>>
    IN IF r.ok THEN Returned(new, r.fs, out, log2)
       ELSE Raised(r.exc, r.fs, log2)

\* variant: the function prints its own confirmation after renaming
RenameOrReport_PrintsRenamed(f, file_path, new, whatif, log) ==
    IF whatif
    THEN Returned(new, f, <<WhatIfLine(file_path, new)>>, log)
    ELSE LET r == Rename(f, file_path, new)
             log2 == Append(log, Op("rename", file_path, new))
         IN IF r.ok THEN Returned(new, r.fs, <<RenamedLine(new)>>, log2)
            ELSE Raised(r.exc, r.fs, log2)

\* lines 52-58: report in dry-run mode, rename otherwise, return the new path
RenameOrReport(f, file_path, new, whatif, log) ==
    IF whatif
    THEN Returned(new, f, <<WhatIfLine(file_path, new)>>, log)
    ELSE LET r == Rename(f, file_path, new)
             log2 == Append(log, Op("rename", file_path, new))
         IN IF r.ok THEN Returned(new, r.fs, <<>>, log2)
            ELSE Raised(r.exc, r.fs, log2)

\* lines 37-58: parse, look the date up, build the new path, rename or report
ParseAndRename(f, file_path, xmp_file_path, whatif, log) ==
    LET content == f[xmp_file_path]
        root == FromString(content)
        date_created == Find(content)
    IN IF ~root.ok THEN Raised(root.exc, f, log)
       ELSE IF DateMissing(date_created)
       THEN Raised(Exc("ValueError",
                       "DateCreated attribute not found in the XMP metadata.",
                       <<>>), f, log)
       ELSE RenameOrReport(f, file_path,
                           new_file_path(file_path, date_created.el.text),
                           whatif, log)

\* lines 20-58, the body of the try statement
TryBody(f, file_path, metadata_dir, whatif) ==
    LET xmp_file_path == XmpFilePath(file_path, metadata_dir)
        log1 == <<Op("exists", xmp_file_path, <<>>)>>
        log2 == Append(log1, Op("open", xmp_file_path, <<>>))
    IN IF ~Exists(f, xmp_file_path)
       THEN Raised(Exc("FileNotFoundError", "XMP metadata file not found",
                       xmp_file_path), f, log1)
       ELSE LET rd == ReadText(f, xmp_file_path)
            IN IF ~rd.ok THEN Raised(rd.exc, f, log2)
               ELSE ParseAndRename(f, file_path, xmp_file_path, whatif, log2)

\* variant: the exception is re-raised as it is
Wrap_Passthrough(file_path, e) == e

\* line 61: RuntimeError(f"Error processing file '{file_path}': {e}")
Wrap(file_path, e) ==
    [type |-> "RuntimeError", text |-> "Error processing file",
     path |-> file_path, cause |-> [text |-> e.text, path |-> e.path]]

\* lines 19-61: the try statement; except Exception re-raises wrapped
prepend_date_to_filename(f, file_path, metadata_dir, whatif) ==
    LET r == TryBody(f, file_path, metadata_dir, whatif)
    IN IF r.raised THEN [r EXCEPT !.exc = Wrap(file_path, r.exc)] ELSE r

(***************************************************************************)
(* The files of the model and the state machine                             *)
(***************************************************************************)
\* line 69, file_path: the target .../25-01-03/IMG_2293.png, shortened
ScriptFilePath == << <<"o">>, <<"I", "M", "G", ".", "p", "n", "g">> >>

\* line 70, metadata_dir: the directory of the .xmp files, shortened
ScriptMetadataDir == << <<"r">> >>

\* the sidecar of the target in the metadata directory
SidecarPath == << <<"r">>, <<"I", "M", "G", ".", "x", "m", "p">> >>

\* characters DateCreated texts are drawn from: a digit, a letter, a hyphen,
\* and the disallowed colon and path separator
DateChars == {"2", "T", "-", ":", "/"}
Texts == UNION {[1..n -> DateChars] : n \in 0..MaxLen}

\* documents with two DateCreated elements are drawn from these
SmallElems == {NoText, Elem(<<>>), Elem(<<"2">>)}

\* what the sidecar path may hold when the program starts
SidecarContents ==
    {Dir, Bin, Malformed, Xml(<<>>), Xml(<<NoText>>)}
    \cup {Xml(<<Elem(t)>>) : t \in Texts}
    \cup {Xml(<<a, b>>) : a \in SmallElems, b \in SmallElems}

Absent == [kind |-> "absent", elems |-> <<>>]

\* the filesystem holding the given contents at the given paths
MkFs(entries) ==
    LET present == {e \in entries : e[2].kind # "absent"}
    IN [p \in {e[1] : e \in present} |->
          (CHOOSE e \in present : e[1] = p)[2]]

\* where a file that collides with the renamed target would lie
CollisionPath(sidecar) ==
    IF sidecar.kind = "xml" /\ ~DateMissing(Find(sidecar))
    THEN new_file_path(ScriptFilePath, Find(sidecar).el.text)
    ELSE << <<"o">>, <<"_">> >>

NoCall ==
    [by |-> "none", again |-> FALSE, file_path |-> <<>>, metadata_dir |-> NoDir, whatif |-> FALSE,
     pre |-> <<>>, raised |-> FALSE, exc |-> NoExc, ret |-> <<>>, log |-> <<>>]

Init ==
    /\ \E target \in {Absent, Bin}, sidecar \in SidecarContents \cup {Absent},
          other \in {Absent, Bin, Dir} :
          fs = MkFs({<<ScriptFilePath, target>>, <<SidecarPath, sidecar>>,
                     <<CollisionPath(sidecar), other>>})
    /\ last = NoCall
    /\ stdout = <<>>

\* what is remembered of the latest invocation: who made it, its arguments,
\* the filesystem it started from and how it ended; again tells that it
\* repeats, with the same arguments, a non-dry-run invocation that returned
Record(by, file_path, metadata_dir, whatif, f, r) ==
    [by |-> by,
     again |-> /\ last.by # "none" /\ ~last.raised /\ ~last.whatif /\ ~whatif
               /\ last.file_path = file_path /\ last.metadata_dir = metadata_dir, file_path |-> file_path, metadata_dir |-> metadata_dir,
     whatif |-> whatif, pre |-> f, raised |-> r.raised, exc |-> r.exc,
     ret |-> r.ret, log |-> r.log]

\* an invocation of prepend_date_to_filename by some caller (lines 5-61);
\* stdout holds the lines written since the invocation began
Call(file_path, metadata_dir, whatif) ==
    LET r == prepend_date_to_filename(fs, file_path, metadata_dir, whatif)
    IN /\ fs' = r.fs
       /\ stdout' = r.out
       /\ last' = Record("call", file_path, metadata_dir, whatif, fs, r)

\* lines 69-72: the module-level invocation with whatif=False, and the print
\* that follows it when the call returns
Script ==
    LET r == prepend_date_to_filename(fs, ScriptFilePath,
                                      InDir(ScriptMetadataDir), FALSE)
    IN /\ fs' = r.fs
       /\ stdout' = IF r.raised THEN r.out
                    ELSE Append(r.out, RenamedLine(r.ret))
       /\ last' = Record("script", ScriptFilePath, InDir(ScriptMetadataDir),
                         FALSE, fs, r)

\* the arguments callers pass
FilePaths == {ScriptFilePath, SidecarPath}
MetadataDirs == {NoDir, InDir(ScriptMetadataDir), InDir(Parent(ScriptFilePath))}

Next ==
    \/ \E file_path \in FilePaths, metadata_dir \in MetadataDirs,
          whatif \in BOOLEAN : Call(file_path, metadata_dir, whatif)
    \/ Script

Spec == Init /\ [][Next]_vars

(***************************************************************************)
(* Properties                                                               *)
(***************************************************************************)
Called == last.by # "none"
Succeeded == Called /\ ~last.raised
Failed == Called /\ last.raised

\* the metadata file the latest invocation has to consult, written out for
\* the files of the model (both have the stem IMG)
ExpectedXmp ==
    IF last.metadata_dir.given
    THEN Append(last.metadata_dir.path, <<"I", "M", "G", ".", "x", "m", "p">>)
    ELSE last.file_path

\* the metadata file was, before the invocation, a readable well-formed document
XmpParsed == /\ Called
             /\ ExpectedXmp \in DOMAIN last.pre
             /\ last.pre[ExpectedXmp].kind = "xml"

\* the text of the first DateCreated element of that document, <<>> without one
DateText ==
    LET elems == last.pre[ExpectedXmp].elems
    IN IF elems = <<>> \/ ~elems[1].hasText THEN <<>> ELSE elems[1].text

RenameOps == {i \in 1..Len(last.log) : last.log[i].op = "rename"}

\* C1: a dry-run invocation, returning or failing, leaves the set of existing
\* paths (and what they hold) as it was; when the target existed and the
\* computed new path did not, that is still so afterwards.
C1_DryRunLeavesFilesystem ==
    (Called /\ last.whatif) =>
        /\ fs = last.pre
        /\ DOMAIN fs = DOMAIN last.pre
        /\ RenameOps = {}
        /\ (/\ ~last.raised
            /\ last.file_path \in DOMAIN last.pre
            /\ last.ret \notin DOMAIN last.pre)
           => (last.file_path \in DOMAIN fs /\ last.ret \notin DOMAIN fs)

C1_Witness ==
    /\ Succeeded /\ last.whatif
    /\ last.file_path \in DOMAIN last.pre
    /\ last.ret \notin DOMAIN last.pre
    /\ last.ret # <<>>

\* C2: after a non-dry-run invocation that returned, the original path no
\* longer exists and the returned path does; the same invocation made again
\* fails, with metadata_dir supplied or not.
C2_RenamedThenRepeatFails ==
    /\ (Succeeded /\ ~last.whatif) =>
          (last.file_path \notin DOMAIN fs /\ last.ret \in DOMAIN fs)
    /\ last.again => last.raised

C2_Witness ==
    /\ last.again /\ last.raised
    /\ last.metadata_dir.given
    /\ ExpectedXmp \in DOMAIN fs
    /\ ExpectedXmp # last.file_path

\* C3: an invocation that fails leaves the filesystem as it found it; the
\* rename is the only operation that changes it, it is the last operation of
\* an invocation, and an invocation whose rename took effect returns.
C3_FailureIsAtomic ==
    Called =>
        /\ last.raised => fs = last.pre
        /\ \A i \in RenameOps : i = Len(last.log)
        /\ fs # last.pre => (~last.raised /\ RenameOps # {})

C3_Witness ==
    /\ Failed /\ ~last.whatif
    /\ RenameOps # {}
    /\ last.file_path \in DOMAIN last.pre
    /\ fs = last.pre

\* C4: a non-dry-run invocation whose computed new path is already taken
\* fails at the rename instead of returning the new path.
C4_CollisionFails ==
    (/\ Called /\ ~last.whatif
     /\ RenameOps # {}
     /\ last.file_path \in DOMAIN last.pre
     /\ last.log[Len(last.log)].to \in DOMAIN last.pre)
    => (last.raised /\ last.exc.type = "RuntimeError")

\* C5: every failure leaves the function as one RuntimeError that names the
\* target file path and carries the message of its cause; a missing metadata
\* file is reported so, and no failure is turned into a returned path.
C5_FailuresAreWrapped ==
    Called =>
        /\ last.raised =>
              /\ last.exc.type = "RuntimeError"
              /\ last.exc.path = last.file_path
              /\ last.exc.cause.text \in
                    {"XMP metadata file not found", "Is a directory",
                     "invalid start byte", "syntax error",
                     "DateCreated attribute not found in the XMP metadata.",
                     "No such file or directory"}
              /\ last.ret = <<>>
        /\ ExpectedXmp \notin DOMAIN last.pre =>
              /\ last.raised
              /\ last.exc.cause = [text |-> "XMP metadata file not found",
                                   path |-> ExpectedXmp]
        /\ (ExpectedXmp \in DOMAIN last.pre
            /\ last.pre[ExpectedXmp].kind # "xml") => last.raised
        /\ (~last.whatif /\ last.file_path \notin DOMAIN last.pre) => last.raised
        /\ ~last.raised => (last.exc = NoExc /\ last.ret # <<>>)

C5_Witness ==
    /\ Failed
    /\ last.metadata_dir.given
    /\ last.exc.type = "RuntimeError"
    /\ last.exc.path = ScriptFilePath
    /\ last.exc.cause = [text |-> "XMP metadata file not found",
                         path |-> SidecarPath]

\* C6: when the parsed document has no DateCreated element, or the element
\* the lookup yields has no text or empty text, the invocation fails with the
\* wrapped "not found" failure in either mode, no rename is attempted and
\* the filesystem (the target with it) is unchanged.
C6_MissingDateFails ==
    (XmpParsed /\ DateText = <<>>) =>
        /\ last.raised
        /\ last.exc.type = "RuntimeError"
        /\ last.exc.cause.text =
              "DateCreated attribute not found in the XMP metadata."
        /\ RenameOps = {}
        /\ fs = last.pre
        /\ last.file_path \in DOMAIN last.pre => last.file_path \in DOMAIN fs

C6_Witness ==
    /\ XmpParsed /\ ~last.whatif /\ Failed
    /\ last.pre[ExpectedXmp].elems # <<>>
    /\ last.pre[ExpectedXmp].elems[1] = Elem(<<>>)
    /\ last.file_path \in DOMAIN fs
    /\ last.file_path # ExpectedXmp

\* C7: the sanitized token, the part of the returned name before "_" and the
\* original name, has the length of the DateCreated text, and at each
\* position holds the text's character when that is a letter, a digit, an
\* underscore or a hyphen, and an underscore otherwise.
C7_SanitizeIsCharForChar ==
    (XmpParsed /\ Succeeded) =>
        LET t == DateText
            n == Name(last.ret)
        IN /\ Len(n) = Len(t) + 1 + Len(Name(last.file_path))
           /\ \A i \in 1..Len(t) :
                 n[i] = IF t[i] \in Upper \cup Lower \cup Digit \cup {"_", "-"}
                        THEN t[i] ELSE "_"

C7_Witness ==
    /\ XmpParsed /\ Succeeded
    /\ DateText = <<":", "/">>
    /\ Name(last.ret) = <<"_", "_", "_">> \o Name(last.file_path)

\* C8: a returned path lies in the target's parent directory, whatever the
\* DateCreated text, and its name is the token, an underscore and the
\* unchanged original name.
C8_NewPathInSameDirectory ==
    (XmpParsed /\ Succeeded) =>
        LET n == Name(last.ret)
            k == Len(Name(last.file_path))
        IN /\ Parent(last.ret) = Parent(last.file_path)
           /\ Len(last.ret) = Len(last.file_path)
           /\ Len(n) = Len(DateText) + 1 + k
           /\ SubSeq(n, Len(n) - k, Len(n)) = <<"_">> \o Name(last.file_path)

C8_Witness ==
    /\ XmpParsed /\ Succeeded
    /\ \E i \in 1..Len(DateText) : DateText[i] = "/"
    /\ Parent(last.ret) = Parent(ScriptFilePath)
    /\ last.ret = Append(Parent(ScriptFilePath),
                         <<"2", "_", "_", "I", "M", "G", ".", "p", "n", "g">>)

\* C9 as stated, for the invocations that return: each writes exactly one
\* line to standard output, the WHATIF notice in dry-run mode and the
\* "File renamed to" confirmation when the rename was performed.
C9_OneLinePerInvocation ==
    Succeeded =>
        /\ Len(stdout) = 1
        /\ stdout[1].text = IF last.whatif THEN "[WHATIF] Would rename"
                            ELSE "File renamed to"

\* C9, amended: an invocation that fails writes nothing; one that returns in
\* dry-run mode writes the one WHATIF notice; one that returns in non-dry-run
\* mode writes nothing itself, and the module-level caller then writes the
\* one "File renamed to" line.  Never both lines.
C9_DiagnosticOutput ==
    Called =>
        stdout = IF last.raised THEN <<>>
                 ELSE IF last.by = "script" THEN <<RenamedLine(last.ret)>>
                 ELSE IF last.whatif
                      THEN <<[text |-> "[WHATIF] Would rename",
                              old |-> last.file_path, new |-> last.ret]>>
                 ELSE <<>>

C9_Witness ==
    /\ Succeeded /\ last.by = "script"
    /\ stdout = <<[text |-> "File renamed to", old |-> <<>>, new |-> last.ret]>>
    /\ last.ret \in DOMAIN fs

\* C10: the one metadata file consulted is metadata_dir/<stem>.xmp when
\* metadata_dir is supplied and the target otherwise; when it does not exist
\* the invocation fails having done nothing but the existence test; the
\* target's existence is not tested, so a dry-run with a present, usable
\* sidecar returns the computed path even without the target.
C10_OneMetadataFile ==
    Called =>
        /\ Len(last.log) >= 1
        /\ last.log[1] = [op |-> "exists", path |-> ExpectedXmp, to |-> <<>>]
        /\ \A i \in 1..Len(last.log) :
              /\ last.log[i].op \in {"exists", "open"} =>
                    last.log[i].path = ExpectedXmp
              /\ last.log[i].op = "exists" => i = 1
              /\ last.log[i].op = "open" => i = 2
        /\ ExpectedXmp \notin DOMAIN last.pre =>
              /\ last.raised
              /\ Len(last.log) = 1
              /\ fs = last.pre
        /\ (last.whatif /\ XmpParsed /\ DateText # <<>>) =>
              (~last.raised /\ last.ret # <<>>)

C10_Witness ==
    /\ Succeeded /\ last.whatif
    /\ last.metadata_dir.given
    /\ last.file_path \notin DOMAIN last.pre
    /\ last.file_path # ExpectedXmp
    /\ ExpectedXmp = SidecarPath

====
